---- MODULE Spec2Model ----
(***************************************************************************)
(* Caffeine tracker backend: the Flask request handlers of src/src/app.py  *)
(* over the SQLite driver of src/src/db.py.  The three tables, the         *)
(* AUTOINCREMENT counters, the wall clock, the last request with its       *)
(* response and the requests in flight are the state.  A request is one    *)
(* atomic step, except in SpecConcurrent.                                  *)
(*   Spec            every handler, valid bodies, time passing             *)
(*   SpecCatalog     the beverage handlers, every kind of beverage body    *)
(*   SpecValidation  the handlers that check a body, every kind of body    *)
(*   SpecConcurrent  DELETE /users/{u} and POST /users/{u}/consumptions    *)
(*                   in flight together, one storage call per step         *)
(***************************************************************************)
EXTENDS Integers, FiniteSets, Sequences, TLC

(* ----------------------------- bounds ---------------------------------- *)
\* Rows ever inserted plus clock ticks, over a run of Spec
MaxEvents == 4
\* Beverages ever inserted, over a run of SpecCatalog
MaxCatalog == 2
\* Rows ever inserted, over a run of SpecValidation
MaxValidated == 3

(* --------------------------- JSON values ------------------------------- *)
\* A JSON value of a numeric field: t is its kind, v its payload.
\*   "absent" key not in the body      "none"   JSON null
\*   "int"    JSON integer v           "numstr" the string str(v)
\*   "float"  JSON number v/10         "str"    a non-numeric string
\*   "nanstr" the string "nan"
Raw(t, v) == [t |-> t, v |-> v]
Absent == Raw("absent", 0)
JNull == Raw("none", 0)
\* Python None for a text value
NoneS == "None"

\* body.get(key): an absent key reads as None
Get(x) == IF x.t = "absent" THEN JNull ELSE x
\* body.get(key, default)
GetDefault(x, d) == IF x.t = "absent" THEN d ELSE x
\* x is None
IsNone(x) == x.t = "none"
\* not s, for a text value
Falsy(s) == s = NoneS \/ s = ""

\* int(x): ok = FALSE is TypeError / ValueError; floats truncate toward zero
py_int(x) ==
    CASE x.t = "int" -> [ok |-> TRUE, v |-> x.v]
      [] x.t = "numstr" -> [ok |-> TRUE, v |-> x.v]
      [] x.t = "float" -> [ok |-> TRUE,
                           v |-> IF x.v >= 0 THEN x.v \div 10 ELSE -((-x.v) \div 10)]
      [] OTHER -> [ok |-> FALSE, v |-> 0]

\* float(x), in tenths: nan = TRUE is the float NaN
py_float(x) ==
    CASE x.t = "int" -> [ok |-> TRUE, nan |-> FALSE, v |-> x.v * 10]
      [] x.t = "numstr" -> [ok |-> TRUE, nan |-> FALSE, v |-> x.v * 10]
      [] x.t = "float" -> [ok |-> TRUE, nan |-> FALSE, v |-> x.v]
      [] x.t = "nanstr" -> [ok |-> TRUE, nan |-> TRUE, v |-> 0]
      [] OTHER -> [ok |-> FALSE, nan |-> FALSE, v |-> 0]

\* A REAL column value: NaN is bound as NULL
Real(f) == IF f.nan THEN [null |-> TRUE, v |-> 0] ELSE [null |-> FALSE, v |-> f.v]

(* ------------------------------ state ---------------------------------- *)
VARIABLES
    users,              \* rows of table users
    users_seq,          \* AUTOINCREMENT counter of users
    beverages,          \* rows of table beverages
    beverages_seq,      \* AUTOINCREMENT counter of beverages
    consumption_log,    \* rows of table consumption_log
    consumption_seq,    \* AUTOINCREMENT counter of consumption_log
    clock,              \* the wall clock, in half days since the start (UTC)
    tz,                 \* the server's offset from UTC, in half days
    last,               \* the last request and its response
    running             \* the requests in flight, each between two storage calls

vars == <<users, users_seq, beverages, beverages_seq, consumption_log,
          consumption_seq, clock, tz, last, running>>
tables == <<users, users_seq, beverages, beverages_seq, consumption_log,
            consumption_seq>>

\* The DatabaseDriver methods db.py defines
DriverMethods ==
    {"get_all_users", "insert_user", "get_user_by_id", "get_user_by_username",
     "update_user_by_id", "delete_user_by_id", "get_all_beverages",
     "insert_beverage", "get_beverage_by_id", "update_beverage_by_id",
     "delete_beverage_by_id", "insert_consumption", "get_consumption_by_user_id",
     "get_consumption_by_user_and_date", "delete_consumption_by_id"}

\* flask.request has get_json, get_data, args, form ... but no attribute get
RequestHasGet == FALSE

\* CURRENT_TIMESTAMP: the UTC time
CURRENT_TIMESTAMP == clock
\* DATE(timestamp): the calendar date of a stored (UTC) timestamp
DATE(t) == t \div 2
\* datetime.date.today(): the server's local date
today == (clock + tz) \div 2

\* SELECT * FROM t WHERE id = ?, first row or None
NoRow == [id |-> 0]
RowById(t, id) == IF \E r \in t : r.id = id THEN CHOOSE r \in t : r.id = id ELSE NoRow

get_all_users == users
get_user_by_id(id) == RowById(users, id)
get_beverage_by_id(id) == RowById(beverages, id)
\* the lookup with the wrong column in its WHERE clause
get_consumption_by_user_id_wrong_column(user_id) ==
    {c \in consumption_log : c.id = user_id}
get_consumption_by_user_id(user_id) == {c \in consumption_log : c.user_id = user_id}
get_consumption_by_user_and_date(user_id, date) ==
    {c \in consumption_log : c.user_id = user_id /\ DATE(c.consumption_time) = date}

\* total_caffeine += beverage["caffeine_content_mg"] * consumption["serving_count"]
RECURSIVE total_caffeine(_)
total_caffeine(consumptions) ==
    IF consumptions = {} THEN 0
    ELSE LET c == CHOOSE x \in consumptions : TRUE
         IN get_beverage_by_id(c.beverage_id).caffeine_content_mg * c.serving_count
            + total_caffeine(consumptions \ {c})

(* ---------------------------- responses -------------------------------- *)
NoData == "none"
Idle == [op |-> "idle", user_id |-> 0, id |-> 0, body |-> NoData,
         status |-> 0, error |-> "", data |-> NoData]
Request(op, user_id, id, body) ==
    [op |-> op, user_id |-> user_id, id |-> id, body |-> body]
\* success_response(data, status_code)
success_response(req, data, status_code) ==
    [op |-> req.op, user_id |-> req.user_id, id |-> req.id, body |-> req.body,
     status |-> status_code, error |-> "", data |-> data]
\* failure_response(description, status_code)
failure_response(req, description, status_code) ==
    [op |-> req.op, user_id |-> req.user_id, id |-> req.id, body |-> req.body,
     status |-> status_code, error |-> description, data |-> NoData]
\* an exception no handler catches: Flask answers 500
unhandled(req, exception) == failure_response(req, exception, 500)

\* A request thread: the storage call it is about to make and its locals
Thread(pc, user_id, body, consumptions) ==
    [pc |-> pc, user_id |-> user_id, body |-> body, consumptions |-> consumptions]
NoThread == Thread("idle", 0, NoData, {})
\* No request is in flight
NoRequests == [delete_user |-> NoThread, log_consumption |-> NoThread]

(* ------------------------------ Init ----------------------------------- *)
\* The server's time zone: UTC, or half a day behind it
TimeZones == {0, -1}

Init ==
    /\ users = {}
    /\ users_seq = 0
    /\ beverages = {}
    /\ beverages_seq = 0
    /\ consumption_log = {}
    /\ consumption_seq = 0
    /\ clock = 0
    /\ tz \in TimeZones
    /\ last = Idle
    /\ running = NoRequests

\* Time passes between two requests
\* Room for one more insert or tick
Budget == users_seq + beverages_seq + consumption_seq + clock < MaxEvents

Tick ==
    /\ Budget
    /\ clock' = clock + 1
    /\ last' = Idle
    /\ UNCHANGED <<tables, tz, running>>

(* ------------------------- POST /beverages ----------------------------- *)
\* The checks of create_beverage, in the handler's order: "" when all pass
create_beverage_error(body) ==
    IF body.null THEN "Request body must be JSON"
    ELSE IF Falsy(body.name) THEN "Field 'name' is required"
    ELSE IF IsNone(Get(body.caffeine_content_mg))
        THEN "Field 'caffeine_content_mg' is required"
    ELSE IF ~py_int(Get(body.caffeine_content_mg)).ok
        THEN "'caffeine_content_mg' must be an integer"
    ELSE IF py_int(Get(body.caffeine_content_mg)).v < 0
        THEN "'caffeine_content_mg' must be non-negative"
    ELSE ""

\* the INSERT with image_url and category bound in the wrong order
insert_beverage_swapped(id, name, caffeine_content_mg, image_url, category) ==
    [id |-> id, name |-> name, caffeine_content_mg |-> caffeine_content_mg,
     image_url |-> category, category |-> image_url]
insert_beverage(id, name, caffeine_content_mg, image_url, category) ==
    [id |-> id, name |-> name, caffeine_content_mg |-> caffeine_content_mg,
     image_url |-> image_url, category |-> category]

create_beverage(body) ==
    LET req == Request("create_beverage", 0, 0, body)
        err == create_beverage_error(body)
        beverage == insert_beverage(beverages_seq + 1, body.name,
                                    py_int(Get(body.caffeine_content_mg)).v,
                                    body.image_url, body.category)
    IN  /\ IF err # ""
           THEN /\ last' = failure_response(req, err, 400)
                /\ UNCHANGED <<beverages, beverages_seq>>
           ELSE /\ beverages' = beverages \cup {beverage}
                /\ beverages_seq' = beverages_seq + 1
                /\ last' = success_response(
                       req, RowById(beverages \cup {beverage}, beverage.id), 201)
        /\ UNCHANGED <<users, users_seq, consumption_log, consumption_seq,
                       clock, tz, running>>

(* ---------------------- DELETE /beverages/{id} ------------------------- *)
\* the DELETE without its WHERE clause
delete_beverage_by_id_no_where(id) == {}
delete_beverage_by_id(id) == {b \in beverages : b.id # id}

delete_beverage(bev_id) ==
    LET req == Request("delete_beverage", 0, bev_id, NoData)
        existing == get_beverage_by_id(bev_id)
    IN  /\ IF existing = NoRow
           THEN /\ last' = failure_response(req, "Beverage not found", 404)
                /\ UNCHANGED beverages
           ELSE /\ beverages' = delete_beverage_by_id(bev_id)
                /\ last' = success_response(req, existing, 200)
        /\ UNCHANGED <<users, users_seq, beverages_seq, consumption_log,
                       consumption_seq, clock, tz, running>>

(* ------------------------ PUT /beverages/{id} -------------------------- *)
\* The checks of update_beverage after the lookup of body.get
update_beverage_error(body) ==
    IF Falsy(body.name) THEN "Field 'name' cannot be empty"
    ELSE IF ~py_int(Get(body.caffeine_content_mg)).ok
        THEN "'caffeine_content_mg' must be an integer"
    ELSE IF py_int(Get(body.caffeine_content_mg)).v < 0
        THEN "'caffeine_content_mg' must be non-negative"
    ELSE ""

update_beverage_by_id(id, name, caffeine_content_mg, image_url, category) ==
    {IF b.id = id
     THEN [b EXCEPT !.name = name, !.caffeine_content_mg = caffeine_content_mg,
                    !.image_url = image_url, !.category = category]
     ELSE b : b \in beverages}

update_beverage(bev_id, body) ==
    LET req == Request("update_beverage", 0, bev_id, body)
        existing == get_beverage_by_id(bev_id)
        err == update_beverage_error(body)
        updated == update_beverage_by_id(bev_id, body.name,
                                         py_int(Get(body.caffeine_content_mg)).v,
                                         body.image_url, body.category)
    IN  /\ IF existing = NoRow
           THEN /\ last' = failure_response(req, "Beverage not found", 404)
                /\ UNCHANGED beverages
           ELSE IF ~RequestHasGet
           THEN \* body = request; body.get("name") raises AttributeError
                /\ last' = unhandled(req, "AttributeError")
                /\ UNCHANGED beverages
           ELSE IF err # ""
           THEN /\ last' = failure_response(req, err, 400)
                /\ UNCHANGED beverages
           ELSE /\ beverages' = updated
                /\ last' = success_response(req, RowById(updated, bev_id), 200)
        /\ UNCHANGED <<users, users_seq, beverages_seq, consumption_log,
                       consumption_seq, clock, tz, running>>

(* --------------------------- POST /users ------------------------------- *)
\* missing.append(...): the required fields the body lacks, in order
missing_fields(body) ==
    (IF Falsy(body.username) THEN <<"username">> ELSE <<>>)
    \o (IF Falsy(body.email) THEN <<"email">> ELSE <<>>)
    \o (IF Falsy(body.password_hash) THEN <<"password_hash">> ELSE <<>>)
    \o (IF IsNone(Get(body.daily_caffeine_limit))
        THEN <<"daily_caffeine_limit">> ELSE <<>>)

\* body.get("weight_lbs", 160.0)
DefaultWeight == Raw("float", 1600)

\* create_user with both coercions ahead of both range checks
create_user_error_coerce_first(body) ==
    LET limit == py_int(Get(body.daily_caffeine_limit))
        weight == py_float(GetDefault(body.weight_lbs, DefaultWeight))
    IN  IF body.null THEN "Request body must be JSON"
        ELSE IF missing_fields(body) # <<>> THEN "Missing required field(s)"
        ELSE IF ~limit.ok THEN "'daily_caffeine_limit' must be an integer"
        ELSE IF ~weight.ok THEN "'weight_lbs' must be a number"
        ELSE IF limit.v <= 0 THEN "'daily_caffeine_limit' must be > 0"
        ELSE IF ~weight.nan /\ weight.v <= 0 THEN "'weight_lbs' must be > 0"
        ELSE ""

\* The checks of create_user, in the handler's order: "" when all pass
create_user_error(body) ==
    LET limit == py_int(Get(body.daily_caffeine_limit))
        weight == py_float(GetDefault(body.weight_lbs, DefaultWeight))
    IN  IF body.null THEN "Request body must be JSON"
        ELSE IF missing_fields(body) # <<>> THEN "Missing required field(s)"
        ELSE IF ~limit.ok THEN "'daily_caffeine_limit' must be an integer"
        ELSE IF limit.v <= 0 THEN "'daily_caffeine_limit' must be > 0"
        ELSE IF ~weight.ok THEN "'weight_lbs' must be a number"
        ELSE IF ~weight.nan /\ weight.v <= 0 THEN "'weight_lbs' must be > 0"
        ELSE ""

insert_user(id, username, email, password_hash, daily_caffeine_limit, weight_lbs) ==
    [id |-> id, username |-> username, email |-> email,
     password_hash |-> password_hash, created_at |-> CURRENT_TIMESTAMP,
     daily_caffeine_limit |-> daily_caffeine_limit, weight_lbs |-> Real(weight_lbs)]

create_user(body) ==
    LET req == Request("create_user", 0, 0, body)
        err == create_user_error(body)
        user == insert_user(users_seq + 1, body.username, body.email,
                            body.password_hash,
                            py_int(Get(body.daily_caffeine_limit)).v,
                            py_float(GetDefault(body.weight_lbs, DefaultWeight)))
    IN  /\ IF err # ""
           THEN \* the missing-fields error names the fields
                /\ last' = [failure_response(req, err, 400) EXCEPT
                               !.data = IF err = "Missing required field(s)"
                                        THEN missing_fields(body) ELSE NoData]
                /\ UNCHANGED <<users, users_seq>>
           ELSE IF \E u \in users : u.username = body.username
           THEN \* username TEXT NOT NULL UNIQUE: sqlite3.IntegrityError
                /\ last' = unhandled(req, "IntegrityError")
                /\ UNCHANGED <<users, users_seq>>
           ELSE /\ users' = users \cup {user}
                /\ users_seq' = users_seq + 1
                /\ last' = success_response(req, RowById(users \cup {user}, user.id), 201)
        /\ UNCHANGED <<beverages, beverages_seq, consumption_log, consumption_seq,
                       clock, tz, running>>

(* ------------------------ DELETE /users/{id} --------------------------- *)
\* the DELETE whose commit is lost
delete_consumption_by_id_lost(log, id) == log
delete_consumption_by_id(log, id) == {c \in log : c.id # id}

\* for consumption in consumptions: DB.delete_consumption_by_id(consumption["id"])
RECURSIVE delete_consumptions(_, _)
delete_consumptions(log, consumptions) ==
    IF consumptions = {} THEN log
    ELSE LET c == CHOOSE x \in consumptions : TRUE
         IN delete_consumptions(delete_consumption_by_id(log, c.id), consumptions \ {c})

delete_user_by_id(id) == {u \in users : u.id # id}

delete_user(user_id) ==
    LET req == Request("delete_user", user_id, 0, NoData)
    IN  /\ consumption_log' =
               delete_consumptions(consumption_log, get_consumption_by_user_id(user_id))
        /\ users' = delete_user_by_id(user_id)
        /\ last' = success_response(req, user_id, 200)
        /\ UNCHANGED <<users_seq, beverages, beverages_seq, consumption_seq,
                       clock, tz, running>>

(* ----------------------- PUT /users/{id}/limit ------------------------- *)
\* The checks of update_caffeine_limit before the user lookup
update_caffeine_limit_error(body) ==
    LET new_limit == py_int(Get(body.daily_caffeine_limit))
    IN  IF body.null THEN "Request body must be JSON"
        ELSE IF IsNone(Get(body.daily_caffeine_limit))
            THEN "'daily_caffeine_limit' is required"
        ELSE IF ~new_limit.ok THEN "'daily_caffeine_limit' must be an integer"
        ELSE IF new_limit.v <= 0 THEN "'daily_caffeine_limit' must be > 0"
        ELSE ""

\* the UPDATE without its WHERE clause
update_user_by_id_no_where(id, username, email, password_hash, daily_caffeine_limit, weight_lbs) ==
    {[u EXCEPT !.daily_caffeine_limit = daily_caffeine_limit] : u \in users}
update_user_by_id(id, username, email, password_hash, daily_caffeine_limit, weight_lbs) ==
    {IF u.id = id
     THEN [u EXCEPT !.username = username, !.email = email,
                    !.password_hash = password_hash,
                    !.daily_caffeine_limit = daily_caffeine_limit,
                    !.weight_lbs = weight_lbs]
     ELSE u : u \in users}

update_caffeine_limit(user_id, body) ==
    LET req == Request("update_caffeine_limit", user_id, 0, body)
        err == update_caffeine_limit_error(body)
        user == get_user_by_id(user_id)
        updated == update_user_by_id(user_id, user.username, user.email,
                                     user.password_hash,
                                     py_int(Get(body.daily_caffeine_limit)).v,
                                     user.weight_lbs)
    IN  /\ IF err # ""
           THEN /\ last' = failure_response(req, err, 400)
                /\ UNCHANGED users
           ELSE IF user = NoRow
           THEN /\ last' = failure_response(req, "User not found", 404)
                /\ UNCHANGED users
           ELSE /\ users' = updated
                /\ last' = success_response(req, RowById(updated, user_id), 200)
        /\ UNCHANGED <<users_seq, beverages, beverages_seq, consumption_log,
                       consumption_seq, clock, tz, running>>

(* -------------------- POST /users/{id}/consumptions -------------------- *)
\* body.get("serving_count", 1)
DefaultServing == Raw("int", 1)

\* The checks of log_consumption on the body, in the handler's order
log_consumption_error(body) ==
    LET beverage_id == py_int(Get(body.beverage_id))
        serving_count == py_int(GetDefault(body.serving_count, DefaultServing))
    IN  IF body.null THEN "Request body must be JSON"
        ELSE IF IsNone(Get(body.beverage_id)) THEN "'beverage_id' is required"
        ELSE IF ~beverage_id.ok \/ ~serving_count.ok
            THEN "'beverage_id' and 'serving_count' must be integers"
        ELSE IF serving_count.v <= 0 THEN "'serving_count' must be >= 1"
        ELSE ""

insert_consumption(id, user_id, beverage_id, serving_count) ==
    [id |-> id, user_id |-> user_id, beverage_id |-> beverage_id,
     consumption_time |-> CURRENT_TIMESTAMP, serving_count |-> serving_count]

log_consumption(user_id, body) ==
    LET req == Request("log_consumption", user_id, 0, body)
        err == log_consumption_error(body)
        beverage_id == py_int(Get(body.beverage_id)).v
        consumption ==
            insert_consumption(
                consumption_seq + 1, user_id, beverage_id,
                py_int(GetDefault(body.serving_count, DefaultServing)).v)
        inserted == consumption_log \cup {consumption}
    IN  /\ IF get_user_by_id(user_id) = NoRow
           THEN /\ last' = failure_response(req, "User not found", 404)
                /\ UNCHANGED <<consumption_log, consumption_seq>>
           ELSE IF err # ""
           THEN /\ last' = failure_response(req, err, 400)
                /\ UNCHANGED <<consumption_log, consumption_seq>>
           ELSE IF get_beverage_by_id(beverage_id) = NoRow
           THEN /\ last' = failure_response(req, "Beverage not found", 404)
                /\ UNCHANGED <<consumption_log, consumption_seq>>
           ELSE /\ consumption_log' = inserted
                /\ consumption_seq' = consumption_seq + 1
                /\ last' = IF "get_consumption_by_id" \in DriverMethods
                           THEN success_response(
                                    req, RowById(inserted, consumption.id), 201)
                           ELSE \* the row is committed, then the read-back raises
                                unhandled(req, "AttributeError")
        /\ UNCHANGED <<users, users_seq, beverages, beverages_seq, clock, tz, running>>

(* -------------- DELETE /users/{id}/consumptions/{log_id} --------------- *)
delete_consumption(user_id, log_id) ==
    LET req == Request("delete_consumption", user_id, log_id, NoData)
        consumption == RowById(consumption_log, log_id)
    IN  /\ IF get_user_by_id(user_id) = NoRow
           THEN /\ last' = failure_response(req, "User not found", 404)
                /\ UNCHANGED consumption_log
           ELSE IF "get_consumption_by_id" \notin DriverMethods
           THEN /\ last' = unhandled(req, "AttributeError")
                /\ UNCHANGED consumption_log
           ELSE IF consumption = NoRow
           THEN /\ last' = failure_response(req, "Consumption entry not found", 404)
                /\ UNCHANGED consumption_log
           ELSE /\ consumption_log' = delete_consumption_by_id(consumption_log, log_id)
                /\ last' = success_response(req, consumption, 200)
        /\ UNCHANGED <<users, users_seq, beverages, beverages_seq, consumption_seq,
                       clock, tz, running>>

(* ---------------- PUT /users/{id}/consumptions/{log_id} ---------------- *)
\* The checks of update_consumption on the body, in the handler's order
update_consumption_error(body) ==
    LET new_serving_count == py_int(Get(body.serving_count))
    IN  IF body.null THEN "Request body must be JSON"
        ELSE IF IsNone(Get(body.serving_count)) THEN "'serving_count' is required"
        ELSE IF ~new_serving_count.ok THEN "'serving_count' must be an integer"
        ELSE IF new_serving_count.v <= 0 THEN "'serving_count' must be >= 1"
        ELSE ""

update_consumption(user_id, log_id, body) ==
    LET req == Request("update_consumption", user_id, log_id, body)
        err == update_consumption_error(body)
        consumption == RowById(consumption_log, log_id)
        updated == {IF c.id = log_id
                    THEN [c EXCEPT !.serving_count = py_int(Get(body.serving_count)).v]
                    ELSE c : c \in consumption_log}
    IN  /\ IF get_user_by_id(user_id) = NoRow
           THEN /\ last' = failure_response(req, "User not found", 404)
                /\ UNCHANGED consumption_log
           ELSE IF err # ""
           THEN /\ last' = failure_response(req, err, 400)
                /\ UNCHANGED consumption_log
           ELSE IF "get_consumption_by_id" \notin DriverMethods
           THEN /\ last' = unhandled(req, "AttributeError")
                /\ UNCHANGED consumption_log
           ELSE IF consumption = NoRow
           THEN /\ last' = failure_response(req, "Consumption entry not found", 404)
                /\ UNCHANGED consumption_log
           ELSE IF consumption.user_id # user_id
           THEN /\ last' = failure_response(
                               req, "Consumption entry does not belong to this user", 403)
                /\ UNCHANGED consumption_log
           ELSE IF "update_consumption_by_id" \notin DriverMethods
           THEN /\ last' = unhandled(req, "AttributeError")
                /\ UNCHANGED consumption_log
           ELSE /\ consumption_log' = updated
                /\ last' = success_response(req, RowById(updated, log_id), 200)
        /\ UNCHANGED <<users, users_seq, beverages, beverages_seq, consumption_seq,
                       clock, tz, running>>

(* -------------------------- GET /consumption --------------------------- *)
get_all_consumption ==
    LET req == Request("get_all_consumption", 0, 0, NoData)
        all_consumptions ==
            UNION {get_consumption_by_user_id(user.id) : user \in get_all_users}
    IN  /\ last' = success_response(req, all_consumptions, 200)
        /\ UNCHANGED <<tables, clock, tz, running>>

(* ----------------- GET /users/{id}/consumption/today ------------------- *)
get_consumption_today(user_id) ==
    LET req == Request("get_consumption_today", user_id, 0, NoData)
        consumptions == get_consumption_by_user_and_date(user_id, today)
    IN  /\ last' = IF \E c \in consumptions : get_beverage_by_id(c.beverage_id) = NoRow
                   THEN \* beverage is None: beverage["caffeine_content_mg"] raises
                        unhandled(req, "TypeError")
                   ELSE success_response(
                            req,
                            [date |-> today,
                             total_caffeine_mg |-> total_caffeine(consumptions)],
                            200)
        /\ UNCHANGED <<tables, clock, tz, running>>

(* ----------------- GET /users/{id}/consumption/weekly ------------------ *)
\* range(7)
WeekDays == 0..6

get_consumption_weekly(user_id) ==
    LET req == Request("get_consumption_weekly", user_id, 0, NoData)
        \* date = today - timedelta(days=i)
        dates == {today - i : i \in WeekDays}
        weekly_summary ==
            [date \in dates |->
                total_caffeine(get_consumption_by_user_and_date(user_id, date))]
    IN  /\ last' = IF \E date \in dates :
                        \E c \in get_consumption_by_user_and_date(user_id, date) :
                            get_beverage_by_id(c.beverage_id) = NoRow
                   THEN \* beverage is None: beverage["caffeine_content_mg"] raises
                        unhandled(req, "TypeError")
                   ELSE success_response(req, weekly_summary, 200)
        /\ UNCHANGED <<tables, clock, tz, running>>

(* ----------------------- GET /users/{id}/stats ------------------------- *)
\* max(0, x)
max(a, b) == IF a >= b THEN a ELSE b

\* round(n / d * 100, 2), in hundredths: ties go to the even neighbour
round2(n, d) ==
    LET q == (n * 10000) \div d
        r == (n * 10000) % d
    IN  IF 2 * r > d \/ (2 * r = d /\ q % 2 = 1) THEN q + 1 ELSE q

get_user_stats(user_id) ==
    LET req == Request("get_user_stats", user_id, 0, NoData)
        user == get_user_by_id(user_id)
        consumptions == get_consumption_by_user_and_date(user_id, today)
        total == total_caffeine(consumptions)
        daily_limit == user.daily_caffeine_limit
        percentage == IF daily_limit > 0 THEN round2(total, daily_limit) ELSE 0
    IN  /\ last' = IF \E c \in consumptions : get_beverage_by_id(c.beverage_id) = NoRow
                   THEN \* beverage is None: beverage["caffeine_content_mg"] raises
                        unhandled(req, "TypeError")
                   ELSE IF user = NoRow
                   THEN \* user is None: user["daily_caffeine_limit"] raises
                        unhandled(req, "TypeError")
                   ELSE success_response(
                            req,
                            [user_id |-> user_id,
                             daily_total_caffeine_mg |-> total,
                             daily_limit_mg |-> daily_limit,
                             percentage_of_limit |-> percentage,
                             remaining_mg |-> max(0, daily_limit - total)],
                            200)
        /\ UNCHANGED <<tables, clock, tz, running>>

(* ------------------------------ requests ------------------------------- *)
\* Path parameters: every id ever assigned, whether its row is live or deleted
UserIds == 1..users_seq
BeverageIds == 1..beverages_seq
LogIds == 1..consumption_seq

\* json.loads / get_json of the JSON text null
NullBeverageBody ==
    [null |-> TRUE, name |-> NoneS, caffeine_content_mg |-> Absent,
     image_url |-> NoneS, category |-> NoneS]
NullUserBody ==
    [null |-> TRUE, username |-> NoneS, email |-> NoneS, password_hash |-> NoneS,
     daily_caffeine_limit |-> Absent, weight_lbs |-> Absent]
NullLimitBody == [null |-> TRUE, daily_caffeine_limit |-> Absent]
NullConsumptionBody == [null |-> TRUE, beverage_id |-> Absent, serving_count |-> Absent]
NullServingBody == [null |-> TRUE, serving_count |-> Absent]

BeverageBody(name, caffeine_content_mg, image_url, category) ==
    [null |-> FALSE, name |-> name, caffeine_content_mg |-> caffeine_content_mg,
     image_url |-> image_url, category |-> category]
UserBody(username, email, password_hash, daily_caffeine_limit, weight_lbs) ==
    [null |-> FALSE, username |-> username, email |-> email,
     password_hash |-> password_hash, daily_caffeine_limit |-> daily_caffeine_limit,
     weight_lbs |-> weight_lbs]

\* The requests of Spec: valid bodies, every handler, every path
BeverageBodies == {BeverageBody("Coffee", Raw("float", 25), "u", NoneS)}
UserBodies ==
    {UserBody("a", "e", "h", Raw("int", 1), Absent),
     UserBody("b", "e", "h", Raw("int", 1), Raw("int", 150))}
LimitBodies == [null : {FALSE}, daily_caffeine_limit : {Raw("numstr", 3)}]
ConsumptionBodies ==
    [null : {FALSE}, beverage_id : {Raw("int", b) : b \in BeverageIds},
     serving_count : {Absent, Raw("int", 2)}]
ServingBodies == [null : {FALSE}, serving_count : {Raw("int", 2)}]

\* Inserts stop when the budget is spent; refused requests do not
CreateBeverage ==
    \E body \in BeverageBodies :
        create_beverage(body) /\ (beverages_seq' # beverages_seq => Budget)
DeleteBeverage == \E bev_id \in BeverageIds : delete_beverage(bev_id)
UpdateBeverage ==
    \E bev_id \in BeverageIds, body \in BeverageBodies : update_beverage(bev_id, body)
CreateUser ==
    \E body \in UserBodies : create_user(body) /\ (users_seq' # users_seq => Budget)
DeleteUser == \E user_id \in UserIds : delete_user(user_id)
UpdateCaffeineLimit ==
    \E user_id \in UserIds, body \in LimitBodies : update_caffeine_limit(user_id, body)
LogConsumption ==
    \E user_id \in UserIds, body \in ConsumptionBodies :
        log_consumption(user_id, body) /\ (consumption_seq' # consumption_seq => Budget)
DeleteConsumption ==
    \E user_id \in UserIds, log_id \in LogIds : delete_consumption(user_id, log_id)
UpdateConsumption ==
    \E user_id \in UserIds, log_id \in LogIds, body \in ServingBodies :
        update_consumption(user_id, log_id, body)
GetAllConsumption == get_all_consumption
GetConsumptionToday == \E user_id \in UserIds : get_consumption_today(user_id)
GetConsumptionWeekly == \E user_id \in UserIds : get_consumption_weekly(user_id)
GetUserStats == \E user_id \in UserIds : get_user_stats(user_id)

Next ==
    \/ Tick
    \/ CreateBeverage
    \/ DeleteBeverage
    \/ UpdateBeverage
    \/ CreateUser
    \/ DeleteUser
    \/ UpdateCaffeineLimit
    \/ LogConsumption
    \/ DeleteConsumption
    \/ UpdateConsumption
    \/ GetAllConsumption
    \/ GetConsumptionToday
    \/ GetConsumptionWeekly
    \/ GetUserStats

Spec == Init /\ [][Next]_vars

(* ---------------- the beverage catalog on its own ---------------------- *)
\* The requests of SpecCatalog: every kind of name and caffeine_content_mg,
\* with and without image_url and category
CatalogBodies ==
    {NullBeverageBody}
    \cup [null : {FALSE}, name : {"", "Coffee"},
          caffeine_content_mg :
              {Absent, Raw("str", 0), Raw("int", -1), Raw("int", 0),
               Raw("numstr", 2), Raw("float", 25), Raw("float", -5)},
          image_url : {NoneS, "u"}, category : {NoneS, "c"}]

CatalogCreate ==
    \E body \in CatalogBodies :
        create_beverage(body) /\ (beverages_seq' # beverages_seq => beverages_seq < MaxCatalog)
CatalogDelete == \E bev_id \in BeverageIds : delete_beverage(bev_id)
CatalogUpdate ==
    \E bev_id \in BeverageIds, body \in BeverageBodies : update_beverage(bev_id, body)

NextCatalog == CatalogCreate \/ CatalogDelete \/ CatalogUpdate

\* The catalog handlers read no clock: one time zone is enough
InitCatalog == Init /\ tz = 0

SpecCatalog == InitCatalog /\ [][NextCatalog]_vars

(* ---------------------- request validation ----------------------------- *)
\* The requests of SpecValidation: each field missing, null, of the wrong
\* type, out of range and valid
UserBodiesV ==
    {NullUserBody}
    \cup {UserBody(u, e, p, l, Raw("str", 0)) :
            u \in {NoneS, "a"}, e \in {"", "e"}, p \in {NoneS, "h"},
            l \in {Absent, Raw("int", 0)}}
    \cup {UserBody("a", "e", "h", l, w) :
            l \in {Raw("str", 0), Raw("int", 0), Raw("float", 5), Raw("numstr", 1)},
            w \in {Absent, JNull, Raw("str", 0), Raw("int", 0), Raw("nanstr", 0),
                   Raw("int", 150)}}
LimitBodiesV ==
    {NullLimitBody}
    \cup [null : {FALSE},
          daily_caffeine_limit :
              {Absent, Raw("str", 0), Raw("int", 0), Raw("numstr", 3)}]
BeverageBodiesV ==
    {NullBeverageBody, BeverageBody(NoneS, Raw("str", 0), "u", NoneS)}
    \cup [null : {FALSE}, name : {"", "Coffee"},
          caffeine_content_mg :
              {Absent, Raw("str", 0), Raw("int", -1), Raw("int", 0), Raw("numstr", 2)},
          image_url : {"u"}, category : {NoneS}]
ConsumptionBodiesV ==
    {NullConsumptionBody}
    \cup [null : {FALSE},
          beverage_id : {Absent, Raw("str", 0), Raw("int", 1)},
          serving_count :
              {Absent, JNull, Raw("str", 0), Raw("int", 0), Raw("int", 2)}]
ServingBodiesV ==
    {NullServingBody}
    \cup [null : {FALSE},
          serving_count :
              {Absent, Raw("str", 0), Raw("int", 0), Raw("int", 2), Raw("float", 5)}]

BudgetV == users_seq + beverages_seq + consumption_seq < MaxValidated

ValidateCreateUser ==
    \E body \in UserBodiesV : create_user(body) /\ (users_seq' # users_seq => BudgetV)
ValidateUpdateLimit ==
    \E user_id \in UserIds, body \in LimitBodiesV : update_caffeine_limit(user_id, body)
ValidateCreateBeverage ==
    \E body \in BeverageBodiesV :
        create_beverage(body) /\ (beverages_seq' # beverages_seq => BudgetV)
ValidateLogConsumption ==
    \E user_id \in UserIds, body \in ConsumptionBodiesV :
        log_consumption(user_id, body) /\ (consumption_seq' # consumption_seq => BudgetV)
ValidateUpdateConsumption ==
    \E user_id \in UserIds, log_id \in LogIds, body \in ServingBodiesV :
        update_consumption(user_id, log_id, body)

NextValidation ==
    \/ ValidateCreateUser
    \/ ValidateUpdateLimit
    \/ ValidateCreateBeverage
    \/ ValidateLogConsumption
    \/ ValidateUpdateConsumption

\* The body checks read no clock: one time zone is enough
InitValidation == Init /\ tz = 0

SpecValidation == InitValidation /\ [][NextValidation]_vars

(* ------------------- two requests in flight together ------------------- *)
\* Rows ever inserted before the two requests arrive, over a run of
\* SpecConcurrent
MaxStored == 3

\* The storage is filled by requests served one at a time
BudgetC == users_seq + beverages_seq + consumption_seq < MaxStored
StoreUser ==
    /\ running = NoRequests
    /\ BudgetC
    /\ \E body \in UserBodies : create_user(body)
StoreBeverage ==
    /\ running = NoRequests
    /\ BudgetC
    /\ \E body \in BeverageBodies : create_beverage(body)
StoreConsumption ==
    /\ running = NoRequests
    /\ BudgetC
    /\ \E user_id \in UserIds, body \in ConsumptionBodies :
           log_consumption(user_id, body)

\* DELETE /users/{u} and POST /users/{u}/consumptions arrive: the connection is
\* shared by the request threads and no lock is taken
Arrive ==
    /\ running = NoRequests
    /\ \E user_id \in UserIds, body \in ConsumptionBodies :
           running' =
               [delete_user |->
                    Thread("get_consumption_by_user_id", user_id, NoData, {}),
                log_consumption |-> Thread("get_user_by_id", user_id, body, {})]
    /\ UNCHANGED <<tables, clock, tz, last>>

\* The thread of a request that has answered
Done == Thread("done", 0, NoData, {})
Answered(thread) == [Done EXCEPT !.user_id = thread.user_id, !.body = thread.body]

\* delete_user: consumptions = DB.get_consumption_by_user_id(user_id)
DeleteUserRead ==
    LET t == running.delete_user
        consumptions == get_consumption_by_user_id(t.user_id)
    IN  /\ t.pc = "get_consumption_by_user_id"
        /\ running' =
               [running EXCEPT !.delete_user =
                   [t EXCEPT !.consumptions = consumptions,
                             !.pc = IF consumptions = {}
                                    THEN "delete_user_by_id"
                                    ELSE "delete_consumption_by_id"]]
        /\ UNCHANGED <<tables, clock, tz, last>>

\* delete_user: one DB.delete_consumption_by_id(consumption["id"]) of the loop,
\* over the rows read before, in the order of their ids
DeleteUserEntry ==
    LET t == running.delete_user
        consumption ==
            CHOOSE c \in t.consumptions : \A x \in t.consumptions : c.id <= x.id
        rest == t.consumptions \ {consumption}
    IN  /\ t.pc = "delete_consumption_by_id"
        /\ consumption_log' = delete_consumption_by_id(consumption_log, consumption.id)
        /\ running' =
               [running EXCEPT !.delete_user =
                   [t EXCEPT !.consumptions = rest,
                             !.pc = IF rest = {}
                                    THEN "delete_user_by_id"
                                    ELSE "delete_consumption_by_id"]]
        /\ UNCHANGED <<users, users_seq, beverages, beverages_seq, consumption_seq,
                       clock, tz, last>>

\* delete_user: DB.delete_user_by_id(user_id) and the response
DeleteUserRow ==
    LET t == running.delete_user
        req == Request("delete_user", t.user_id, 0, NoData)
    IN  /\ t.pc = "delete_user_by_id"
        /\ users' = delete_user_by_id(t.user_id)
        /\ last' = success_response(req, t.user_id, 200)
        /\ running' = [running EXCEPT !.delete_user = Answered(t)]
        /\ UNCHANGED <<users_seq, beverages, beverages_seq, consumption_log,
                       consumption_seq, clock, tz>>

\* log_consumption: user = DB.get_user_by_id(user_id) and the checks of the body
LogConsumptionUser ==
    LET t == running.log_consumption
        req == Request("log_consumption", t.user_id, 0, t.body)
        err == log_consumption_error(t.body)
    IN  /\ t.pc = "get_user_by_id"
        /\ IF get_user_by_id(t.user_id) = NoRow
           THEN /\ last' = failure_response(req, "User not found", 404)
                /\ running' = [running EXCEPT !.log_consumption = Answered(t)]
           ELSE IF err # ""
           THEN /\ last' = failure_response(req, err, 400)
                /\ running' = [running EXCEPT !.log_consumption = Answered(t)]
           ELSE /\ running' =
                       [running EXCEPT !.log_consumption.pc = "get_beverage_by_id"]
                /\ UNCHANGED last
        /\ UNCHANGED <<tables, clock, tz>>

\* log_consumption: DB.get_beverage_by_id(beverage_id)
LogConsumptionBeverage ==
    LET t == running.log_consumption
        req == Request("log_consumption", t.user_id, 0, t.body)
    IN  /\ t.pc = "get_beverage_by_id"
        /\ IF get_beverage_by_id(py_int(Get(t.body.beverage_id)).v) = NoRow
           THEN /\ last' = failure_response(req, "Beverage not found", 404)
                /\ running' = [running EXCEPT !.log_consumption = Answered(t)]
           ELSE /\ running' =
                       [running EXCEPT !.log_consumption.pc = "insert_consumption"]
                /\ UNCHANGED last
        /\ UNCHANGED <<tables, clock, tz>>

\* log_consumption: DB.insert_consumption(...), then the read-back and the
\* response
LogConsumptionInsert ==
    LET t == running.log_consumption
        req == Request("log_consumption", t.user_id, 0, t.body)
        consumption ==
            insert_consumption(
                consumption_seq + 1, t.user_id, py_int(Get(t.body.beverage_id)).v,
                py_int(GetDefault(t.body.serving_count, DefaultServing)).v)
        inserted == consumption_log \cup {consumption}
    IN  /\ t.pc = "insert_consumption"
        /\ consumption_log' = inserted
        /\ consumption_seq' = consumption_seq + 1
        /\ last' = IF "get_consumption_by_id" \in DriverMethods
                   THEN success_response(req, RowById(inserted, consumption.id), 201)
                   ELSE unhandled(req, "AttributeError")
        /\ running' = [running EXCEPT !.log_consumption = Answered(t)]
        /\ UNCHANGED <<users, users_seq, beverages, beverages_seq, clock, tz>>

NextConcurrent ==
    \/ StoreUser
    \/ StoreBeverage
    \/ StoreConsumption
    \/ Arrive
    \/ DeleteUserRead
    \/ DeleteUserEntry
    \/ DeleteUserRow
    \/ LogConsumptionUser
    \/ LogConsumptionBeverage
    \/ LogConsumptionInsert

\* The two handlers read no date: one time zone is enough
InitConcurrent == Init /\ tz = 0

SpecConcurrent == InitConcurrent /\ [][NextConcurrent]_vars

(* ------------------------------- claims -------------------------------- *)
UserExists(id) == \E u \in users : u.id = id
BeverageExists(id) == \E b \in beverages : b.id = id
EntryExists(id) == \E c \in consumption_log : c.id = id

\* C1: once DELETE /users/{u} has completed, storage holds no consumption
\* entry with user_id = u and no user row with id = u, and a GET /consumption
\* that follows returns no entry with user_id = u.
C1_DeleteUserRemovesEntries ==
    [][/\ last'.op = "delete_user" =>
            /\ \A c \in consumption_log' : c.user_id # last'.user_id
            /\ \A u \in users' : u.id # last'.user_id
       /\ (last.op = "delete_user" /\ last'.op = "get_all_consumption") =>
            /\ last'.status = 200
            /\ \A c \in last'.data : c.user_id # last.user_id]_vars

\* C1 witness: a user who was created is deleted after two entries were logged,
\* and the log is empty
C1_Witness ==
    /\ last.op = "delete_user"
    /\ last.user_id <= users_seq
    /\ consumption_seq >= 2
    /\ consumption_log = {}

\* C5: with every request atomic, each consumption entry's user_id is the id
\* of an existing user in every reachable state, and a log-consumption request
\* for a non-existent user answers 404 and inserts nothing.
C5_EntriesReferenceUsers ==
    [][/\ \A c \in consumption_log' : \E u \in users' : u.id = c.user_id
       /\ (last'.op = "log_consumption" /\ ~UserExists(last'.user_id)) =>
            /\ last'.status = 404
            /\ consumption_log' = consumption_log]_vars

\* C5 witness: a log request for a deleted user is refused while another
\* user's entry is stored
C5_Witness ==
    /\ last.op = "log_consumption"
    /\ last.status = 404
    /\ last.user_id <= users_seq
    /\ ~UserExists(last.user_id)
    /\ consumption_log # {}

\* C6: PUT /users/{id}/limit with a valid positive limit on an existing user
\* sets that user's daily_caffeine_limit to the new value and leaves the
\* user's other fields, every other user, every beverage and every entry
\* unchanged; on a non-existent user it answers 404 and changes nothing.
C6_UpdateLimitFrame ==
    [][(/\ last'.op = "update_caffeine_limit"
        /\ ~last'.body.null
        /\ py_int(Get(last'.body.daily_caffeine_limit)).ok
        /\ py_int(Get(last'.body.daily_caffeine_limit)).v > 0) =>
         IF UserExists(last'.user_id)
         THEN /\ last'.status = 200
              /\ \A u \in users :
                   IF u.id = last'.user_id
                   THEN [u EXCEPT !.daily_caffeine_limit =
                             py_int(Get(last'.body.daily_caffeine_limit)).v] \in users'
                   ELSE u \in users'
              /\ Cardinality(users') = Cardinality(users)
              /\ UNCHANGED <<users_seq, beverages, beverages_seq, consumption_log,
                             consumption_seq>>
         ELSE /\ last'.status = 404
              /\ UNCHANGED tables]_vars

\* C6 witness: the limit of one of two users was raised to 3, with a beverage
\* and an entry in storage
C6_Witness ==
    /\ last.op = "update_caffeine_limit"
    /\ last.status = 200
    /\ \E u, w \in users :
         /\ u.id = last.user_id /\ u.daily_caffeine_limit = 3
         /\ w.id # u.id /\ w.daily_caffeine_limit = 1
    /\ consumption_log # {}

\* A body whose integer field x is coercible
Coercible(x) == py_int(x).ok

\* C2: PUT /users/{A}/consumptions/{log_id} with a valid serving_count, where
\* user A exists and the entry exists but belongs to another user, answers 403
\* and leaves every row unchanged.
C2_UpdateForeignEntryForbidden ==
    [][(/\ last'.op = "update_consumption"
        /\ ~last'.body.null
        /\ Coercible(Get(last'.body.serving_count))
        /\ py_int(Get(last'.body.serving_count)).v >= 1
        /\ UserExists(last'.user_id)
        /\ \E c \in consumption_log : c.id = last'.id /\ c.user_id # last'.user_id) =>
         /\ last'.status = 403
         /\ UNCHANGED tables]_vars

\* C3: POST /users/{uid}/consumptions for an existing user, an existing
\* beverage and serving_count >= 1 (1 when omitted) adds exactly one entry with
\* that user_id, beverage_id and serving_count under a fresh id, and answers
\* 201 with the new entry.
C3_LogConsumptionCreates ==
    [][(/\ last'.op = "log_consumption"
        /\ ~last'.body.null
        /\ UserExists(last'.user_id)
        /\ Coercible(Get(last'.body.beverage_id))
        /\ BeverageExists(py_int(Get(last'.body.beverage_id)).v)
        /\ Coercible(GetDefault(last'.body.serving_count, DefaultServing))
        /\ py_int(GetDefault(last'.body.serving_count, DefaultServing)).v >= 1) =>
         /\ last'.status = 201
         /\ \E c \in consumption_log' :
              /\ c \notin consumption_log
              /\ ~EntryExists(c.id)
              /\ c.user_id = last'.user_id
              /\ c.beverage_id = py_int(Get(last'.body.beverage_id)).v
              /\ c.serving_count =
                     py_int(GetDefault(last'.body.serving_count, DefaultServing)).v
              /\ consumption_log' = consumption_log \cup {c}
              /\ last'.data = c]_vars

\* The sum of caffeine_content_mg * serving_count over a set of entries whose
\* beverages exist
RECURSIVE CaffeineSum(_)
CaffeineSum(entries) ==
    IF entries = {} THEN 0
    ELSE LET c == CHOOSE x \in entries : TRUE
             b == CHOOSE x \in beverages : x.id = c.beverage_id
         IN b.caffeine_content_mg * c.serving_count + CaffeineSum(entries \ {c})

\* C4: GET /users/{u}/consumption/today returns total_caffeine_mg, the sum over
\* u's entries dated today of the referenced beverage's caffeine_content_mg
\* times the entry's serving_count (0 when there is no such entry).
C4_TodayTotal ==
    last.op = "get_consumption_today" =>
        /\ last.status = 200
        /\ last.data.total_caffeine_mg =
               CaffeineSum({c \in consumption_log :
                               /\ c.user_id = last.user_id
                               /\ DATE(c.consumption_time) = today})

\* C7: DELETE /users/{A}/consumptions/{log_id}, where user A exists and the
\* entry exists but belongs to another user, is refused with 403 and the entry
\* is not deleted.
C7_DeleteForeignEntryForbidden ==
    [][(/\ last'.op = "delete_consumption"
        /\ UserExists(last'.user_id)
        /\ \E c \in consumption_log : c.id = last'.id /\ c.user_id # last'.user_id) =>
         /\ last'.status = 403
         /\ consumption_log' = consumption_log]_vars

\* C8: PUT /beverages/{id} on an existing beverage with a non-empty name and a
\* caffeine_content_mg coercible to an integer >= 0 overwrites name,
\* caffeine_content_mg, image_url and category with the request's values,
\* keeps the id and answers 200 with the updated beverage; on a non-existent id
\* it answers 404 and changes nothing.
C8_UpdateBeverageOverwrites ==
    [][(/\ last'.op = "update_beverage"
        /\ ~Falsy(last'.body.name)
        /\ Coercible(Get(last'.body.caffeine_content_mg))
        /\ py_int(Get(last'.body.caffeine_content_mg)).v >= 0) =>
         IF BeverageExists(last'.id)
         THEN LET updated ==
                      [id |-> last'.id, name |-> last'.body.name,
                       caffeine_content_mg |->
                           py_int(Get(last'.body.caffeine_content_mg)).v,
                       image_url |-> last'.body.image_url,
                       category |-> last'.body.category]
              IN /\ last'.status = 200
                 /\ last'.data = updated
                 /\ beverages' = {b \in beverages : b.id # last'.id} \cup {updated}
         ELSE /\ last'.status = 404
              /\ UNCHANGED tables]_vars

\* C9: for every valid beverage creation, reading the beverage by the returned
\* id yields the same name, the coerced caffeine_content_mg, the same image_url
\* and the same category, until that beverage is updated or deleted.
C9_CreateBeverageRoundTrip ==
    [][/\ (/\ last'.op = "create_beverage"
           /\ ~last'.body.null
           /\ ~Falsy(last'.body.name)
           /\ Coercible(Get(last'.body.caffeine_content_mg))
           /\ py_int(Get(last'.body.caffeine_content_mg)).v >= 0) =>
            /\ last'.status = 201
            /\ \E b \in beverages' : b.id = last'.data.id
            /\ \A b \in beverages' :
                 b.id = last'.data.id =>
                   /\ b.name = last'.body.name
                   /\ b.caffeine_content_mg =
                          py_int(Get(last'.body.caffeine_content_mg)).v
                   /\ b.image_url = last'.body.image_url
                   /\ b.category = last'.body.category
                   /\ b = last'.data
       /\ \A b \in beverages :
            ~(last'.op \in {"update_beverage", "delete_beverage"} /\ last'.id = b.id)
                => b \in beverages']_vars

\* C9 witness: a beverage created from the number 2.5 with an image and no
\* category reads back with caffeine 2, after an earlier beverage was created
C9_Witness ==
    /\ last.op = "create_beverage"
    /\ last.status = 201
    /\ last.body.caffeine_content_mg = Raw("float", 25)
    /\ last.body.image_url = "u"
    /\ last.body.category = NoneS
    /\ get_beverage_by_id(last.data.id).caffeine_content_mg = 2
    /\ beverages_seq >= 2

\* The error of the first failing check of a list of checks, "" when none fails
RECURSIVE FirstFailing(_)
FirstFailing(checks) ==
    IF checks = <<>> THEN ""
    ELSE IF Head(checks).fails THEN Head(checks).error
    ELSE FirstFailing(Tail(checks))
Check(fails, error) == [fails |-> fails, error |-> error]

\* The handlers that validate a JSON body
ValidatingOps ==
    {"create_user", "update_caffeine_limit", "create_beverage", "log_consumption",
     "update_consumption"}

\* The presence, coercion and range checks of each endpoint
PresenceChecks(op, body) ==
    <<Check(body.null, "Request body must be JSON")>>
    \o CASE op = "create_user" ->
              <<Check(~body.null /\ missing_fields(body) # <<>>,
                      "Missing required field(s)")>>
         [] op = "update_caffeine_limit" ->
              <<Check(IsNone(Get(body.daily_caffeine_limit)),
                      "'daily_caffeine_limit' is required")>>
         [] op = "create_beverage" ->
              <<Check(Falsy(body.name), "Field 'name' is required"),
                Check(IsNone(Get(body.caffeine_content_mg)),
                      "Field 'caffeine_content_mg' is required")>>
         [] op = "log_consumption" ->
              <<Check(IsNone(Get(body.beverage_id)), "'beverage_id' is required")>>
         [] op = "update_consumption" ->
              <<Check(IsNone(Get(body.serving_count)), "'serving_count' is required")>>
LimitCoercion(body) ==
    Check(~py_int(Get(body.daily_caffeine_limit)).ok,
          "'daily_caffeine_limit' must be an integer")
LimitRange(body) ==
    Check(py_int(Get(body.daily_caffeine_limit)).v <= 0,
          "'daily_caffeine_limit' must be > 0")
WeightCoercion(body) ==
    Check(~py_float(GetDefault(body.weight_lbs, DefaultWeight)).ok,
          "'weight_lbs' must be a number")
WeightRange(body) ==
    Check(LET w == py_float(GetDefault(body.weight_lbs, DefaultWeight))
          IN ~w.nan /\ w.v <= 0,
          "'weight_lbs' must be > 0")
CoercionChecks(op, body) ==
    CASE op = "create_user" -> <<LimitCoercion(body), WeightCoercion(body)>>
      [] op = "update_caffeine_limit" -> <<LimitCoercion(body)>>
      [] op = "create_beverage" ->
           <<Check(~py_int(Get(body.caffeine_content_mg)).ok,
                   "'caffeine_content_mg' must be an integer")>>
      [] op = "log_consumption" ->
           <<Check(\/ ~py_int(Get(body.beverage_id)).ok
                   \/ ~py_int(GetDefault(body.serving_count, DefaultServing)).ok,
                   "'beverage_id' and 'serving_count' must be integers")>>
      [] op = "update_consumption" ->
           <<Check(~py_int(Get(body.serving_count)).ok,
                   "'serving_count' must be an integer")>>
RangeChecks(op, body) ==
    CASE op = "create_user" -> <<LimitRange(body), WeightRange(body)>>
      [] op = "update_caffeine_limit" -> <<LimitRange(body)>>
      [] op = "create_beverage" ->
           <<Check(py_int(Get(body.caffeine_content_mg)).v < 0,
                   "'caffeine_content_mg' must be non-negative")>>
      [] op = "log_consumption" ->
           <<Check(py_int(GetDefault(body.serving_count, DefaultServing)).v <= 0,
                   "'serving_count' must be >= 1")>>
      [] op = "update_consumption" ->
           <<Check(py_int(Get(body.serving_count)).v <= 0,
                   "'serving_count' must be >= 1")>>

\* C10 as stated: on every write endpoint all presence checks run first, then
\* all type coercions, then all range checks, and the first failing check
\* alone determines the 400 error.
C10_PresenceCoercionRange ==
    (last.op \in ValidatingOps /\ last.status = 400) =>
        last.error = FirstFailing(PresenceChecks(last.op, last.body)
                                  \o CoercionChecks(last.op, last.body)
                                  \o RangeChecks(last.op, last.body))

\* The checks in the order that holds: presence first, then each numeric field
\* in turn coerced and range-checked (POST /users: the limit, then the weight)
FieldByFieldChecks(op, body) ==
    PresenceChecks(op, body)
    \o IF op = "create_user"
       THEN <<LimitCoercion(body), LimitRange(body),
              WeightCoercion(body), WeightRange(body)>>
       ELSE CoercionChecks(op, body) \o RangeChecks(op, body)

\* C10 amended: a write endpoint that reaches its body checks answers 400
\* exactly when one of them fails, with the error of the first failing check
\* in the field-by-field order, and then writes no row.
C10_FirstFailingCheck ==
    [][last'.op \in ValidatingOps =>
         \E error \in {FirstFailing(FieldByFieldChecks(last'.op, last'.body))} :
           LET reached == last'.op \in {"log_consumption", "update_consumption"}
                              => UserExists(last'.user_id)
           IN /\ last'.status = 400 =>
                   /\ reached
                   /\ error # ""
                   /\ last'.error = error
                   /\ UNCHANGED tables
              /\ (reached /\ error # "") => last'.status = 400]_vars

\* C10 witness: POST /users with daily_caffeine_limit 0 and a weight_lbs that is
\* no number is refused with the range error of the limit
C10_Witness ==
    /\ last.op = "create_user"
    /\ last.status = 400
    /\ last.body.daily_caffeine_limit = Raw("int", 0)
    /\ last.body.weight_lbs = Raw("str", 0)
    /\ missing_fields(last.body) = <<>>
    /\ last.error = "'daily_caffeine_limit' must be > 0"

\* The entries of user u whose stored timestamp falls on calendar date d
EntriesOn(u, d) ==
    {c \in consumption_log : c.user_id = u /\ DATE(c.consumption_time) = d}

\* C11: GET /users/{u}/consumption/weekly always returns a mapping with exactly
\* 7 keys, the 7 consecutive calendar dates ending today inclusive, each mapped
\* to that date's daily total for user u, and to 0 on every date without an
\* entry of u (also when u has no entry at all or does not exist).
C11_WeeklySevenDates ==
    last.op = "get_consumption_weekly" =>
        /\ last.status = 200
        /\ DOMAIN last.data = (today - 6)..today
        /\ Cardinality(DOMAIN last.data) = 7
        /\ \A d \in DOMAIN last.data :
             /\ last.data[d] = CaffeineSum(EntriesOn(last.user_id, d))
             /\ EntriesOn(last.user_id, d) = {} => last.data[d] = 0

\* C12: GET /users/{u}/stats for an existing user returns remaining_mg =
\* max(0, daily_limit - daily_total): never negative, and 0 whenever the day's
\* total is at or above the limit.
C12_RemainingNeverNegative ==
    (last.op = "get_user_stats" /\ UserExists(last.user_id)) =>
        /\ last.status = 200
        /\ LET daily_limit == get_user_by_id(last.user_id).daily_caffeine_limit
               daily_total == CaffeineSum(EntriesOn(last.user_id, today))
           IN /\ last.data.remaining_mg =
                     IF daily_limit - daily_total > 0
                     THEN daily_limit - daily_total ELSE 0
              /\ last.data.remaining_mg >= 0
              /\ daily_total >= daily_limit => last.data.remaining_mg = 0

\* C13: DELETE /beverages/{id} on an existing beverage removes exactly that
\* beverage row and leaves every user, every other beverage and every
\* consumption entry unchanged, the entries whose beverage_id is the deleted id
\* included: no cascade and no referential rejection.
C13_DeleteBeverageFrame ==
    [][(last'.op = "delete_beverage" /\ BeverageExists(last'.id)) =>
         /\ last'.status = 200
         /\ ~\E b \in beverages' : b.id = last'.id
         /\ beverages' = beverages \ {b \in beverages : b.id = last'.id}
         /\ Cardinality(beverages') = Cardinality(beverages) - 1
         /\ users' = users
         /\ consumption_log' = consumption_log]_vars

\* C13 witness: one of two beverages was deleted while an entry of a stored
\* user still refers to it
C13_Witness ==
    /\ last.op = "delete_beverage"
    /\ last.status = 200
    /\ beverages # {}
    /\ users # {}
    /\ \E c \in consumption_log : c.beverage_id = last.id

\* The stored rows are within the ranges of the data model
StoredRanges(us, bs, cs) ==
    /\ \A u \in us :
         /\ u.daily_caffeine_limit > 0
         /\ ~u.weight_lbs.null
         /\ u.weight_lbs.v > 0
    /\ \A b \in bs : b.caffeine_content_mg >= 0
    /\ \A c \in cs : c.serving_count >= 1

\* A body that passes the presence and coercion checks of op and carries a
\* value outside the range of its field
OutOfRange(op, body) ==
    /\ FirstFailing(PresenceChecks(op, body) \o CoercionChecks(op, body)) = ""
    /\ CASE op = "create_user" ->
              LET w == py_float(GetDefault(body.weight_lbs, DefaultWeight))
              IN \/ py_int(Get(body.daily_caffeine_limit)).v <= 0
                 \/ w.nan
                 \/ w.v <= 0
         [] op = "update_caffeine_limit" ->
              py_int(Get(body.daily_caffeine_limit)).v <= 0
         [] op = "create_beverage" -> py_int(Get(body.caffeine_content_mg)).v < 0
         [] op = "log_consumption" ->
              py_int(GetDefault(body.serving_count, DefaultServing)).v < 1
         [] op = "update_consumption" -> py_int(Get(body.serving_count)).v < 1

\* C14: in every state reachable through the handlers every stored user has
\* daily_caffeine_limit > 0 and weight_lbs > 0, every stored beverage has
\* caffeine_content_mg >= 0 and every stored entry has serving_count >= 1; a
\* request that would violate one of these is answered 400 and writes nothing.
C14_StoredRangesKept ==
    [][/\ StoredRanges(users', beverages', consumption_log')
       /\ (/\ last'.op \in ValidatingOps
           /\ last'.op \in {"log_consumption", "update_consumption"}
                  => UserExists(last'.user_id)
           /\ OutOfRange(last'.op, last'.body)) =>
            /\ last'.status = 400
            /\ UNCHANGED tables]_vars

\* C15: when DELETE /users/{u} and POST /users/{u}/consumptions run
\* concurrently with their storage calls interleaved in any order, then once
\* both requests have completed and the user row is gone, no consumption entry
\* with user_id = u remains in storage.
C15_NoEntryOfDeletedUser ==
    (/\ running.delete_user.pc = "done"
     /\ running.log_consumption.pc = "done"
     /\ running.delete_user.user_id = running.log_consumption.user_id
     /\ ~UserExists(running.delete_user.user_id)) =>
        \A c \in consumption_log : c.user_id # running.delete_user.user_id

====
